---- MODULE Spec2Model ----
(***************************************************************************)
(* Model of the WOW Speaker Series dashboard: the workbook loaders, the    *)
(* record normalizer clean_data (src/utils.py), the decade helpers and the *)
(* control flow of main with the session filter of the reports.            *)
(*                                                                         *)
(* Text is modelled as a sequence of one-character strings, so that        *)
(* substring tests, lower-casing, character removal and number parsing are *)
(* computed and not assumed.  A number is an exact decimal [m, e] standing *)
(* for m / 10^e with e minimal.                                            *)
(***************************************************************************)
EXTENDS Integers, Sequences, FiniteSets, TLC

VARIABLES
    pc,          \* position of the run: which step comes next
    df,          \* the table handed to clean_data
    df_clean,    \* the table clean_data returned (NoTable before the call)
    workbook,    \* the sheets of the workbook file: name -> raw table
    readable,    \* whether the default workbook file can be opened
    uploaded,    \* whether the user supplied a file in the upload widget
    all_sheets,  \* the mapping main works with (None when loading failed)
    load_path,   \* which loader produced all_sheets
    cleaned,     \* names of the sheets that were passed through clean_data
    rendered,    \* the reports rendered so far, each with the sessions it used
    columns,     \* per sheet, the column names of its table
    unparsable,  \* the sheets of the workbook file that cannot be parsed
    upload_readable,  \* whether the file supplied in the upload widget opens
    page,        \* messages, prompts and tracebacks shown, in display order
    load_result, \* which loader was called last and how the call ended
    raises       \* the calls inside the try blocks of clean_data that raise

vars == <<pc, df, df_clean, workbook, readable, uploaded, all_sheets,
          load_path, cleaned, rendered, columns, unparsable, upload_readable,
          page, load_result, raises>>

\* the tables of the normalizer runs
clean_vars == <<df, df_clean>>

\* the files the run reads: they do not change during a run
file_vars == <<workbook, readable, uploaded, upload_readable, unparsable, raises>>

\* what a run of main builds up
main_vars == <<all_sheets, load_path, cleaned, rendered, columns, page, load_result>>

----------------------------------------------------------------------------
(* Bounds of the model *)

\* rows per table in the normalizer runs
NRows == 2
\* longest generated cell text in the currency runs
MaxLen == 3
\* rows per sheet in the dashboard runs
MaxSheetRows == 2

----------------------------------------------------------------------------
(* Text *)

Digits == <<"0", "1", "2", "3", "4", "5", "6", "7", "8", "9">>

IsDigit(c) == \E i \in 1..10 : Digits[i] = c

DigitVal(c) == (CHOOSE i \in 1..10 : Digits[i] = c) - 1

\* Python's `sub in s`
Contains(s, sub) ==
    \E i \in 1..(Len(s) - Len(sub) + 1) : SubSeq(s, i, i + Len(sub) - 1) = sub

UpperLetters ==
    <<"A", "B", "C", "D", "E", "F", "G", "H", "I", "J", "K", "L", "M",
      "N", "O", "P", "Q", "R", "S", "T", "U", "V", "W", "X", "Y", "Z">>
LowerLetters ==
    <<"a", "b", "c", "d", "e", "f", "g", "h", "i", "j", "k", "l", "m",
      "n", "o", "p", "q", "r", "s", "t", "u", "v", "w", "x", "y", "z">>

\* str.lower() on one character, for the letters the model's names use
LowerChar(c) ==
    IF \E i \in 1..Len(UpperLetters) : UpperLetters[i] = c
    THEN LowerLetters[CHOOSE i \in 1..Len(UpperLetters) : UpperLetters[i] = c]
    ELSE c

\* str.lower()
Lower(s) == [i \in 1..Len(s) |-> LowerChar(s[i])]

\* str.replace(ch, '', regex=False)
RECURSIVE RemoveChar(_, _)
RemoveChar(s, ch) ==
    IF s = <<>> THEN <<>>
    ELSE IF Head(s) = ch THEN RemoveChar(Tail(s), ch)
    ELSE <<Head(s)>> \o RemoveChar(Tail(s), ch)

----------------------------------------------------------------------------
(* Numbers: exact decimals m / 10^e *)

RECURSIVE Pow10(_)
Pow10(n) == IF n = 0 THEN 1 ELSE 10 * Pow10(n - 1)

RECURSIVE Norm(_, _)
Norm(m, e) == IF e > 0 /\ m % 10 = 0 THEN Norm(m \div 10, e - 1)
              ELSE [m |-> m, e |-> e]

Max(a, b) == IF a >= b THEN a ELSE b

\* float addition, exact within the model's range
DecAdd(a, b) ==
    LET e == Max(a.e, b.e)
    IN  Norm(a.m * Pow10(e - a.e) + b.m * Pow10(e - b.e), e)

DecZero == [m |-> 0, e |-> 0]

\* Python's x // 10 * 10 followed by int()
FloorDecade(d) == (d.m \div Pow10(d.e + 1)) * 10

\* Python's int() of a number: truncation toward zero
IntOf(d) ==
    IF d.m >= 0 THEN d.m \div Pow10(d.e)
    ELSE -((-d.m) \div Pow10(d.e))

RECURSIVE NatStr(_)
NatStr(n) == IF n < 10 THEN <<Digits[n + 1]>>
             ELSE NatStr(n \div 10) \o <<Digits[(n % 10) + 1]>>

\* str() of an int
IntStr(n) == IF n < 0 THEN <<"-">> \o NatStr(-n) ELSE NatStr(n)

RECURSIVE PadFrac(_, _)
PadFrac(s, width) == IF Len(s) >= width THEN s ELSE PadFrac(<<"0">> \o s, width)

\* str() of a float: always with a fractional part, "102.0" for 102.0
FloatStr(d) ==
    LET a    == IF d.m < 0 THEN -d.m ELSE d.m
        sign == IF d.m < 0 THEN <<"-">> ELSE <<>>
        ip   == a \div Pow10(d.e)
        fp   == a % Pow10(d.e)
    IN  sign \o NatStr(ip) \o <<".">> \o
        (IF d.e = 0 THEN <<"0">> ELSE PadFrac(NatStr(fp), d.e))

----------------------------------------------------------------------------
(* Cells and columns of a pandas table *)

\* A cell: text (k = "str"), a Python int, a float, NaN, a timestamp or NaT.
Cell(k, s, m, e) == [k |-> k, s |-> s, m |-> m, e |-> e]

StrCell(s) == Cell("str", s, 0, 0)
IntCell(n) == Cell("int", <<>>, n, 0)
FloatCell(m, e) == Cell("float", <<>>, Norm(m, e).m, Norm(m, e).e)
NaN == Cell("nan", <<>>, 0, 0)
NaT == Cell("nat", <<>>, 0, 0)
\* a timestamp, identified by its day of January 2024
DtCell(day) == Cell("dt", <<>>, day, 0)

IsNum(c) == c.k \in {"int", "float"}
\* pd.isna
IsNA(c) == c.k \in {"nan", "nat"}
NumVal(c) == [m |-> c.m, e |-> c.e]
AsFloat(c) == IF c.k = "int" THEN Cell("float", <<>>, c.m, 0) ELSE c

\* the dtype pandas gives a column built from these cells, and the cells as
\* that dtype stores them
InferDType(cells) ==
    LET ks == {cells[i].k : i \in 1..Len(cells)}
    IN  IF ks \subseteq {"int"} /\ ks # {} THEN "int64"
        ELSE IF ks \subseteq {"int", "float", "nan"} THEN "float64"
        ELSE IF ks \subseteq {"dt", "nat", "nan"} THEN "datetime64[ns]"
        ELSE "object"

Stored(cells) ==
    LET t == InferDType(cells)
    IN  [i \in 1..Len(cells) |->
            IF t = "float64" THEN AsFloat(cells[i])
            ELSE IF t = "datetime64[ns]" /\ cells[i].k = "nan" THEN NaT
            ELSE cells[i]]

\* str() of a cell value, as Series.astype(str) applies it
AsStr(c) ==
    CASE c.k = "str"   -> c.s
      [] c.k = "int"   -> IntStr(c.m)
      [] c.k = "float" -> FloatStr(NumVal(c))
      [] c.k = "nan"   -> <<"n", "a", "n">>
      [] c.k = "nat"   -> <<"N", "a", "T">>
      [] c.k = "dt"    -> <<"2", "0", "2", "4", "-", "0", "1", "-">>
                              \o PadFrac(NatStr(c.m), 2)

RECURSIVE DigitsVal(_)
DigitsVal(s) == IF s = <<>> THEN 0
                ELSE DigitsVal(SubSeq(s, 1, Len(s) - 1)) * 10 + DigitVal(s[Len(s)])

\* pd.to_numeric(errors='coerce') on one text: an optionally signed decimal
\* numeral gives its value, any other text (also "nan") gives NaN.  The
\* exponent and infinity spellings are outside the alphabet of the model.
ParseNumber(s) ==
    LET signed == s # <<>> /\ s[1] \in {"-", "+"}
        body   == IF signed THEN Tail(s) ELSE s
        dots   == {i \in 1..Len(body) : body[i] = "."}
        ok     == /\ \A i \in 1..Len(body) : IsDigit(body[i]) \/ body[i] = "."
                  /\ \E i \in 1..Len(body) : IsDigit(body[i])
                  /\ Cardinality(dots) <= 1
        e      == IF dots = {} THEN 0 ELSE Len(body) - (CHOOSE i \in dots : TRUE)
        a      == DigitsVal(RemoveChar(body, "."))
        m      == IF signed /\ s[1] = "-" THEN -a ELSE a
    IN  IF ~ok THEN NaN
        ELSE IF dots = {} THEN IntCell(m)
        ELSE FloatCell(m, e)

\* pd.to_numeric(errors='coerce') on one cell
ToNumericCell(c) ==
    CASE IsNum(c)     -> c
      [] c.k = "str"  -> ParseNumber(c.s)
      [] OTHER        -> NaN

\* the conversion without coercion: one unparsable text leaves the whole
\* column as it was
ToNumeric_Ignore(cells) ==
    IF \E i \in 1..Len(cells) : cells[i].k = "str" /\ ParseNumber(cells[i].s) = NaN
    THEN cells
    ELSE Stored([i \in 1..Len(cells) |-> ToNumericCell(cells[i])])

\* pd.to_numeric(errors='coerce') on a column
ToNumeric(cells) == Stored([i \in 1..Len(cells) |-> ToNumericCell(cells[i])])

\* pd.to_datetime(errors='coerce') on one cell: a timestamp stays, a text of
\* the form written by AsStr for a timestamp is parsed, a number is read as
\* an epoch offset, anything else is NaT
ToDatetimeCell(c) ==
    CASE c.k = "dt"  -> c
      [] IsNum(c)    -> DtCell(1)
      [] c.k = "str" ->
            IF Len(c.s) = 10 /\ SubSeq(c.s, 1, 8) = <<"2", "0", "2", "4", "-", "0", "1", "-">>
               /\ IsDigit(c.s[9]) /\ IsDigit(c.s[10])
            THEN DtCell(DigitsVal(SubSeq(c.s, 9, 10)))
            ELSE NaT
      [] OTHER       -> NaT

----------------------------------------------------------------------------
(* Tables *)

Range(q) == {q[i] : i \in 1..Len(q)}

\* a DataFrame: the column names in order, and per column its dtype and cells
Table(cols, data) ==
    [cols  |-> cols,
     dtype |-> [c \in Range(cols) |-> InferDType(data[c])],
     data  |-> [c \in Range(cols) |-> Stored(data[c])]]

NoTable == [cols |-> <<>>, dtype |-> <<>>, data |-> <<>>]

\* `col in df.columns`
HasCol(t, c) == c \in Range(t.cols)

\* df[c] = cells
SetCol(t, c, dt, cells) ==
    [cols  |-> IF HasCol(t, c) THEN t.cols ELSE Append(t.cols, c),
     dtype |-> (c :> dt) @@ t.dtype,
     data  |-> (c :> cells) @@ t.data]

\* column names the source spells out
col_ID == <<"I", "D">>
col_CL_YR == <<"C", "L", " ", "Y", "R">>
col_SP_CL_YR == <<"S", "P", " ", "C", "L", " ", "Y", "R">>
col_WE_Range == <<"W", "E", " ", "R", "a", "n", "g", "e">>
col_LT_Giving == <<"L", "T", " ", "G", "i", "v", "i", "n", "g">>
col_State == <<"S", "t", "a", "t", "e">>
col_Decade == <<"D", "e", "c", "a", "d", "e">>
col_Total_All_Giving ==
    <<"T", "o", "t", "a", "l", "_", "A", "l", "l", "_", "G", "i", "v", "i", "n", "g">>

kw_Date == <<"D", "a", "t", "e">>
kw_date == <<"d", "a", "t", "e">>
kw_Gift == <<"G", "i", "f", "t">>
kw_Gifts == <<"G", "i", "f", "t", "s">>
kw_Ask == <<"A", "s", "k">>
kw_Pledge == <<"P", "l", "e", "d", "g", "e">>
txt_Unknown == <<"U", "n", "k", "n", "o", "w", "n">>

----------------------------------------------------------------------------
(* clean_data, step by step *)

\* Series.replace('', np.nan) on every column.  The dtype of the column is
\* kept; the values the later steps compute do not depend on a downcast.
ReplaceEmptyCell(c) == IF c.k = "str" /\ c.s = <<>> THEN NaN ELSE c

ReplaceEmpty(t) ==
    [t EXCEPT !.data = [c \in DOMAIN t.data |-> [i \in 1..Len(t.data[c]) |-> ReplaceEmptyCell(t.data[c][i])]]]

\* df['ID'].astype(str): Python's str() of each value
IdCell(c) == StrCell(AsStr(c))

IdToStr(t) ==
    IF HasCol(t, col_ID)
    THEN SetCol(t, col_ID, "object", [i \in 1..Len(t.data[col_ID]) |-> IdCell(t.data[col_ID][i])])
    ELSE t

year_cols == <<col_CL_YR, col_SP_CL_YR>>

RECURSIVE YearsToNumeric(_, _)
YearsToNumeric(t, ys) ==
    IF ys = <<>> THEN t
    ELSE LET c == Head(ys)
             u == IF HasCol(t, c)
                  THEN SetCol(t, c, InferDType(ToNumeric(t.data[c])), ToNumeric(t.data[c]))
                  ELSE t
         IN  YearsToNumeric(u, Tail(ys))

IsDateName(c) == Contains(c, kw_Date) \/ Contains(c, kw_date)

date_cols(t) == SelectSeq(t.cols, IsDateName)

RECURSIVE DatesToDatetime(_, _)
DatesToDatetime(t, ds) ==
    IF ds = <<>> THEN t
    ELSE DatesToDatetime(
            SetCol(t, Head(ds), "datetime64[ns]", [i \in 1..Len(t.data[Head(ds)]) |-> ToDatetimeCell(t.data[Head(ds)][i])]),
            Tail(ds))

IsAmountName(c) == Contains(c, kw_Gift) \/ Contains(c, kw_Ask)

amount_cols(t, dcols) ==
    LET Test(c) == IsAmountName(c) /\ c \notin Range(dcols)
    IN  SelectSeq(t.cols, Test)

\* the stripping with the removal of the thousands separators left out
StripCurrency_KeepCommas(c) == RemoveChar(AsStr(c), "$")

\* .astype(str).str.replace('$', '').str.replace(',', '') of one cell
StripCurrency(c) == RemoveChar(RemoveChar(AsStr(c), "$"), ",")

\* one cell of an object-typed amount column
AmountCell(c) == ParseNumber(StripCurrency(c))

AmountColumn(cells) == Stored([i \in 1..Len(cells) |-> AmountCell(cells[i])])

RECURSIVE ProcessAmounts(_, _)
ProcessAmounts(t, as) ==
    IF as = <<>> THEN t
    ELSE LET c == Head(as)
             u == IF t.dtype[c] = "object" /\ ~(c = col_WE_Range \/ c = col_LT_Giving)
                  THEN SetCol(t, c, InferDType(AmountColumn(t.data[c])), AmountColumn(t.data[c]))
                  ELSE t
         IN  ProcessAmounts(u, Tail(as))

\* (x // 10) * 10, then f"{int(x)}s" or "Unknown"
DecadeCell(c) ==
    IF IsNA(c) THEN StrCell(txt_Unknown)
    ELSE StrCell(IntStr(FloorDecade(NumVal(c))) \o <<"s">>)

AddDecade(t) ==
    IF HasCol(t, col_CL_YR)
    THEN SetCol(t, col_Decade, "object", [i \in 1..Len(t.data[col_CL_YR]) |-> DecadeCell(t.data[col_CL_YR][i])])
    ELSE t

\* df['State'].fillna('Unknown')
FillStateCell(c) == IF IsNA(c) THEN StrCell(txt_Unknown) ELSE c

FillState(t) ==
    IF HasCol(t, col_State)
    THEN SetCol(t, col_State, "object", [i \in 1..Len(t.data[col_State]) |-> FillStateCell(t.data[col_State][i])])
    ELSE t

\* the name test without the exclusion of pledge columns
IsGivingName_WithPledge(c) == Contains(c, kw_Gifts) \/ Contains(c, kw_Gift)

\* the name test taking "Giving" for a giving column as well
IsGivingName_OrGiving(c) ==
    (Contains(c, kw_Gift) \/ Contains(c, <<"G", "i", "v", "i", "n", "g">>))
    /\ ~Contains(c, kw_Pledge)

IsGivingName(c) ==
    (Contains(c, kw_Gifts) \/ Contains(c, kw_Gift)) /\ ~Contains(c, kw_Pledge)

\* the sum taken over the amount columns instead of the giving columns
giving_cols_AllAmounts(t, dcols) ==
    LET Test(c) == /\ Contains(c, kw_Gift) \/ Contains(c, kw_Ask)
                   /\ c \notin Range(dcols)
                   /\ t.dtype[c] # "datetime64[ns]"
    IN  SelectSeq(t.cols, Test)

giving_cols(t, dcols) ==
    LET Test(c) == /\ IsGivingName(c)
                   /\ c \notin Range(dcols)
                   /\ t.dtype[c] # "datetime64[ns]"
    IN  SelectSeq(t.cols, Test)

\* one term of a row-wise sum with skipna=True
SkipNA(c) == IF IsNum(c) THEN NumVal(c) ELSE DecZero

\* df[gs].sum(axis=1, skipna=True), row r
RECURSIVE RowSum(_, _, _)
RowSum(t, gs, r) ==
    IF gs = <<>> THEN DecZero
    ELSE DecAdd(SkipNA(t.data[Head(gs)][r]), RowSum(t, Tail(gs), r))

\* the row-wise sum raises when a summed column still holds text
SumRaises(t, gs) ==
    \E c \in Range(gs) : \E i \in 1..Len(t.data[c]) : t.data[c][i].k = "str"

\* no call raises; otherwise sum says that the row-wise sum raises and
\* to_numeric names the columns whose coercion raises in the except branch
NoFaults == [sum |-> FALSE, to_numeric |-> {}]

\* the except branch with one handler around the whole loop: the first
\* column whose coercion raises ends the summing
RECURSIVE FallbackSum_OneHandler(_, _, _)
FallbackSum_OneHandler(t, gs, r) ==
    IF gs = <<>> \/ Head(gs) \in raises.to_numeric THEN DecZero
    ELSE DecAdd(SkipNA(ToNumericCell(t.data[Head(gs)][r])),
                FallbackSum_OneHandler(t, Tail(gs), r))

\* the except branch: the total starts at 0 and, column by column,
\* to_numeric(...).fillna(0) is added; a column whose coercion raises is
\* passed over (except: pass)
RECURSIVE FallbackSum(_, _, _)
FallbackSum(t, gs, r) ==
    IF gs = <<>> THEN DecZero
    ELSE IF Head(gs) \in raises.to_numeric THEN FallbackSum(t, Tail(gs), r)
    ELSE DecAdd(SkipNA(ToNumericCell(t.data[Head(gs)][r])), FallbackSum(t, Tail(gs), r))

NumCell(d) == Cell("float", <<>>, d.m, d.e)

NumRows(t) == IF t.cols = <<>> THEN 0 ELSE Len(t.data[t.cols[1]])

AddTotal(t, gs) ==
    IF gs = <<>> THEN t
    ELSE SetCol(t, col_Total_All_Giving, "float64",
                [r \in 1..NumRows(t) |->
                    IF SumRaises(t, gs) \/ raises.sum THEN NumCell(FallbackSum(t, gs, r))
                    ELSE NumCell(RowSum(t, gs, r))])

clean_data(t) ==
    LET t1 == ReplaceEmpty(t)
        t2 == IdToStr(t1)
        t3 == YearsToNumeric(t2, year_cols)
        ds == date_cols(t3)
        t4 == DatesToDatetime(t3, ds)
        t5 == ProcessAmounts(t4, amount_cols(t4, ds))
        t6 == AddDecade(t5)
        t7 == FillState(t6)
    IN  AddTotal(t7, giving_cols(t7, ds))

----------------------------------------------------------------------------
(* The decade helpers outside clean_data *)

\* Python's int() of a text: an optionally signed run of digits, else ValueError
IsIntText(s) ==
    LET body == IF s # <<>> /\ s[1] \in {"-", "+"} THEN Tail(s) ELSE s
    IN  body # <<>> /\ \A i \in 1..Len(body) : IsDigit(body[i])

IntOfText(s) ==
    LET a == DigitsVal(IF s[1] \in {"-", "+"} THEN Tail(s) ELSE s)
    IN  IF s[1] = "-" THEN -a ELSE a

\* whether int(year) succeeds, and its value
IntConverts(c) == IsNum(c) \/ (c.k = "str" /\ IsIntText(c.s))

IntValue(c) == IF IsNum(c) THEN IntOf(NumVal(c)) ELSE IntOfText(c.s)

DecadeLabel(y) == IntStr((y \div 10) * 10) \o <<"s">>

txt_Pre1950s == <<"P", "r", "e", "-", "1", "9", "5", "0", "s">>
txt_2020s == <<"2", "0", "2", "0", "s">>

\* utils.get_decade_label
get_decade_label(year) ==
    IF IsNA(year) THEN txt_Unknown
    ELSE IF IntConverts(year) THEN DecadeLabel(IntValue(year))
    ELSE txt_Unknown

\* the bucket of an integer year in get_decade
DecadeBucket(y) ==
    IF y < 1950 THEN txt_Pre1950s
    ELSE IF y >= 2020 THEN txt_2020s
    ELSE DecadeLabel(y)

\* get_decade of attendance_by_decade: int(year) first, and the parsing of
\* four- and two-digit texts only after int(year) has raised
get_decade(year) ==
    IF IsNA(year) THEN txt_Unknown
    ELSE IF IntConverts(year) THEN DecadeBucket(IntValue(year))
    ELSE LET year_str == AsStr(year)
             isdigit  == year_str # <<>> /\ \A i \in 1..Len(year_str) : IsDigit(year_str[i])
         IN  IF isdigit /\ Len(year_str) = 4 THEN DecadeBucket(DigitsVal(year_str))
             ELSE IF isdigit /\ Len(year_str) = 2
                  THEN IF DigitsVal(year_str) >= 50
                       THEN IntStr(1900 + (DigitsVal(year_str) \div 10) * 10) \o <<"s">>
                       ELSE IntStr(2000 + (DigitsVal(year_str) \div 10) * 10) \o <<"s">>
             ELSE txt_Unknown

----------------------------------------------------------------------------
(* Inputs of the normalizer runs *)

col_Gift == <<"G", "i", "f", "t">>
col_Gift_Pledge == <<"G", "i", "f", "t", " ", "P", "l", "e", "d", "g", "e">>
col_Gift_Date == <<"G", "i", "f", "t", " ", "D", "a", "t", "e">>
col_Gift_DATE == <<"G", "i", "f", "t", " ", "D", "A", "T", "E">>
col_Ask == <<"A", "s", "k">>

txt_NA == <<"N", "/", "A">>
txt_Currency == <<"$", "1", "2", ",", "3", "4", "5", ".", "6", "7">>
txt_Day5 == <<"2", "0", "2", "4", "-", "0", "1", "-", "0", "5">>

GiftCells ==
    {IntCell(100), IntCell(-50), FloatCell(125, 1), StrCell(txt_Currency),
     StrCell(txt_NA), StrCell(<<>>), NaN}

PledgeCells == {IntCell(500), IntCell(-20), StrCell(<<"$", "5", "0">>)}

DateCells == {DtCell(6), StrCell(txt_Day5), IntCell(3), StrCell(txt_NA)}

AskCells == {IntCell(250), StrCell(<<"$", "2", ",", "5", "0", "0">>)}

YearCells ==
    {IntCell(y) : y \in {1940, 1949, 1950, 1983, 2019, 2020, 2021, 2035}}
    \cup {FloatCell(19835, 1), StrCell(<<"1", "9", "8", "3">>),
          StrCell(<<"a", "b", "c">>), StrCell(<<>>), NaN}

IdCells ==
    {IntCell(101), FloatCell(102, 0), StrCell(<<"1", "0", "3">>),
     IntCell(1024), FloatCell(1024, 0), StrCell(<<"1", "0", "2", "4">>),
     StrCell(<<>>), NaN}

\* the characters of the generated cell texts
Alphabet == {"$", ",", ".", "1", "5", "-", "N"}

RECURSIVE TextsOfLen(_)
TextsOfLen(n) ==
    IF n = 0 THEN {<<>>}
    ELSE {Append(s, ch) : s \in TextsOfLen(n - 1), ch \in Alphabet}

Texts == UNION {TextsOfLen(n) : n \in 0..MaxLen} \cup {txt_Currency, txt_NA}

\* the cells a column of the given name may hold in the spreadsheet
CellsOf(c) ==
    CASE c = col_Gift        -> GiftCells
      [] c = col_Gift_Pledge -> PledgeCells
      [] c = col_Gift_Date   -> DateCells
      [] c = col_Gift_DATE   -> DateCells
      [] c = col_Ask         -> AskCells
      [] c = col_CL_YR       -> YearCells
      [] c = col_ID          -> IdCells

Schemas ==
    {<<col_Gift, col_Gift_Pledge>>, <<col_Gift, col_Gift_Date>>,
     <<col_Gift, col_Gift_DATE>>, <<col_Gift, col_Ask>>,
     <<col_CL_YR>>, <<col_ID>>}

\* a single amount column whose first cell holds the text s
CurrencyTable(s) ==
    Table(<<col_Gift>>,
          col_Gift :> [r \in 1..NRows |-> IF r = 1 THEN StrCell(s) ELSE IntCell(7)])

\* df is a table over one of the schemas, NRows rows, or a currency table
\* over one of the generated texts
IsInputTable(t) ==
    \/ \E cols \in {q \in Schemas : Len(q) = 1} :
          \E a \in [1..NRows -> CellsOf(cols[1])] :
              t = Table(cols, cols[1] :> a)
    \/ \E cols \in {q \in Schemas : Len(q) = 2} :
          \E a \in [1..NRows -> CellsOf(cols[1])], b \in [1..NRows -> CellsOf(cols[2])] :
              t = Table(cols, (cols[1] :> a) @@ (cols[2] :> b))
    \/ \E s \in Texts : t = CurrencyTable(s)

----------------------------------------------------------------------------
(* The normalizer run: one table is drawn and clean_data is applied to it *)

NoSheets == [ok |-> FALSE, sheets |-> <<>>]

\* no loader has been called
NotLoaded == [loader |-> "none", outcome |-> "none"]

InitClean ==
    /\ pc = "clean_ready"
    /\ IsInputTable(df)
    /\ df_clean = NoTable
    /\ workbook = <<>>
    /\ readable = FALSE
    /\ uploaded = FALSE
    /\ all_sheets = NoSheets
    /\ load_path = "none"
    /\ cleaned = {}
    /\ rendered = {}
    /\ columns = <<>>
    /\ unparsable = {}
    /\ upload_readable = FALSE
    /\ page = <<>>
    /\ load_result = NotLoaded
    /\ raises = NoFaults

CleanData ==
    /\ pc = "clean_ready"
    /\ df_clean' = clean_data(df)
    /\ pc' = "clean_done"
    /\ UNCHANGED <<df, file_vars, main_vars>>

\* clean_data applied to the table a first call returned
CleanAgain ==
    /\ pc = "clean_done"
    /\ df' = df_clean
    /\ df_clean' = clean_data(df_clean)
    /\ pc' = "clean_twice"
    /\ UNCHANGED <<file_vars, main_vars>>

NextClean == CleanData \/ CleanAgain

SpecClean == InitClean /\ [][NextClean]_vars

\* The normalizer run in which the row-wise sum of lines 101-103 raises: the
\* table has two giving columns, and the coercion of the first of them in
\* the except branch raises or does not
col_Prior_Gifts == <<"P", "r", "i", "o", "r", " ", "G", "i", "f", "t", "s">>

InitFault ==
    /\ pc = "clean_ready"
    /\ \E a \in [1..NRows -> GiftCells], b \in [1..NRows -> AskCells] :
          df = Table(<<col_Gift, col_Prior_Gifts>>, (col_Gift :> a) @@ (col_Prior_Gifts :> b))
    /\ raises \in {[sum |-> TRUE, to_numeric |-> cs] : cs \in {{}, {col_Gift}}}
    /\ df_clean = NoTable
    /\ workbook = <<>>
    /\ readable = FALSE
    /\ uploaded = FALSE
    /\ all_sheets = NoSheets
    /\ load_path = "none"
    /\ cleaned = {}
    /\ rendered = {}
    /\ columns = <<>>
    /\ unparsable = {}
    /\ upload_readable = FALSE
    /\ page = <<>>
    /\ load_result = NotLoaded

SpecFault == InitFault /\ [][NextClean]_vars

----------------------------------------------------------------------------
(* Workbooks of the dashboard runs *)

name_A == <<"A">>
name_B == <<"B">>
name_C == <<"C">>
name_Sheet7 == <<"S", "h", "e", "e", "t", "7">>
name_SHEET7 == <<"S", "H", "E", "E", "T", "7">>
txt_sheet7 == <<"s", "h", "e", "e", "t", "7">>

\* sheets that are sessions, and spellings of the placeholder sheet
SessionNames == {name_A, name_B}
PlaceholderNames == {name_Sheet7, name_SHEET7}
SheetNames == SessionNames \cup PlaceholderNames

SheetIdCells == {IntCell(101), IntCell(104)}

\* a sheet is its ID column, as pandas stores it
SheetTables ==
    UNION {{Stored(q) : q \in [1..n -> SheetIdCells]} : n \in 0..MaxSheetRows}

PlaceholderTables == {t \in SheetTables : Len(t) <= 1}

\* a workbook holds at least one sheet; a placeholder sheet has at most one row
IsWorkbook(w) ==
    \E names \in (SUBSET SheetNames) \ {{}} :
        \E a \in [names \cap SessionNames -> SheetTables],
           b \in [names \cap PlaceholderNames -> PlaceholderTables] :
            w = a @@ b

\* a workbook of up to three sessions of one attendee each, whose ID may be
\* an empty cell
IsAttendanceWorkbook(w) ==
    \E names \in (SUBSET {name_A, name_B, name_C}) \ {{}} :
        w \in [names -> {Stored(<<c>>) : c \in SheetIdCells \cup {NaN}}]

\* the columns of a session sheet the modelled reports read: 'Hi Ask' stands
\* for the four columns ask_amount_optimization selects together
col_Hi_Ask == <<"H", "i", " ", "A", "s", "k">>
col_Attendees == <<"A", "t", "t", "e", "n", "d", "e", "e", "s">>
col_Standardized_WE_Range ==
    <<"S", "t", "a", "n", "d", "a", "r", "d", "i", "z", "e", "d", " ",
      "W", "E", " ", "R", "a", "n", "g", "e">>

FullColumns == {col_ID, col_CL_YR, col_WE_Range, col_Hi_Ask}

\* a sheet carries all of these columns or lacks one of them
ColumnVariants == {FullColumns} \cup {FullColumns \ {c} : c \in FullColumns}

\* a workbook whose sheets all hold the single row of attendee 101
IsOneRowWorkbook(w) == \A n \in DOMAIN w : w[n] = <<IntCell(101)>>

\* the columns of the sheets: complete in every placeholder sheet, one of the
\* variants in every session sheet
IsColumnChoice(w, cs) ==
    \E a \in [DOMAIN w \cap SessionNames -> ColumnVariants] :
        cs = a @@ [n \in DOMAIN w \cap PlaceholderNames |-> FullColumns]

----------------------------------------------------------------------------
(* The loaders *)

\* del d[k] when k is a key of d
DelKey(d, k) == [n \in (DOMAIN d) \ {k} |-> d[n]]

\* pd.read_excel(file, sheet_name=None) raises when the file does not open
\* or when one of its sheets cannot be parsed
read_excel_raises(can_read, bad) == ~can_read \/ bad # {}

\* load_default_data: pd.read_excel(sheet_name=None), then the removal of
\* the key 'Sheet7'; None when the read raised
load_default_data(book, can_read, bad) ==
    IF ~read_excel_raises(can_read, bad)
    THEN [ok |-> TRUE, sheets |-> DelKey(book, name_Sheet7)]
    ELSE NoSheets

\* the uploaded-file branch of main, when the read does not raise
load_uploaded(book) == [ok |-> TRUE, sheets |-> DelKey(book, name_Sheet7)]

\* utils.load_data on a file that opens: every sheet that can be parsed,
\* under its own name
load_data(book, bad) == [ok |-> TRUE, sheets |-> [n \in (DOMAIN book) \ bad |-> book[n]]]

\* Python's truth value of the mapping main holds
Truthy(m) == m.ok /\ DOMAIN m.sheets # {}

\* one element of the page
Element(kind, source, about) == [kind |-> kind, source |-> source, about |-> about]

\* st.warning(f"Could not read sheet ...") for each sheet that failed
RECURSIVE Warnings(_)
Warnings(bad) ==
    IF bad = {} THEN <<>>
    ELSE LET n == CHOOSE x \in bad : TRUE
         IN  <<Element("warning", "load_data", n)>> \o Warnings(bad \ {n})

----------------------------------------------------------------------------
(* The reports *)

\* the guard written as the loaders write it, without lower()
IsSession_Exact(n) == n # name_Sheet7

\* `sheet_name.lower() != 'sheet7'`, the guard of every loop over the sheets
IsSession(n) == Lower(n) # txt_sheet7

\* the sheets a report loops over
ReportSessions(sheets) == {n \in DOMAIN sheets : IsSession(n)}

RECURSIVE SumOver(_, _)
SumOver(S, f) ==
    IF S = {} THEN 0
    ELSE LET x == CHOOSE y \in S : TRUE
         IN  f[x] + SumOver(S \ {x}, f)

\* set(df['ID'].astype(str))
IdSet(sheet) == {AsStr(sheet[i]) : i \in 1..Len(sheet)}

\* df[c] raises KeyError in a loop over the sessions: some session table
\* has no column c
KeyErrorOn(sheets, cols, c) == \E n \in ReportSessions(sheets) : c \notin cols[n]

\* the check `all(c in df.columns for ... )` that opens the guarded reports
HasColumnInAll(sheets, cols, c) == \A n \in ReportSessions(sheets) : c \in cols[n]

\* df[c] = ... on the table of every session: the tables are those of the
\* mapping itself, not copies
AddColumn(sheets, cols, c) ==
    [n \in DOMAIN cols |-> IF n \in ReportSessions(sheets) THEN cols[n] \cup {c} ELSE cols[n]]

\* display_overview: the summary rows, total and unique attendees
\* repeat is the rate as the card shows it (f"{x:.1f}"), in tenths of a
\* percent; below sixteen unique attendees no rate lies halfway between two
\* tenths
display_overview(sheets) ==
    LET rows == ReportSessions(sheets)
        total_attendees == SumOver(rows, [n \in rows |-> Len(sheets[n])])
        all_attendees == UNION {IdSet(sheets[n]) : n \in rows}
        unique_attendees == Cardinality(all_attendees)
    IN  [report   |-> "overview",
         sessions |-> rows,
         total    |-> total_attendees,
         unique   |-> unique_attendees,
         repeat   |-> IF unique_attendees > 0
                      THEN (2000 * (total_attendees - unique_attendees) + unique_attendees)
                               \div (2 * unique_attendees)
                      ELSE 0]

\* the column display_overview fails on, <<>> when it does not fail: the
\* summary frame built from no row has no 'Attendees' column, and df['ID']
\* is read from every session table
display_overview_KeyError(sheets, cols) ==
    IF ReportSessions(sheets) = {} THEN col_Attendees
    ELSE IF KeyErrorOn(sheets, cols, col_ID) THEN col_ID
    ELSE <<>>

\* attendance_overlap_analysis: attendee_sets, total_attendees, total_unique
\* multi is multi_session_attendees, repeat the rate as its card shows it,
\* overlap the off-diagonal cells of the overlap matrix, and attended the
\* "Sessions Attended" column of the overlap table, by attendee
attendance_overlap_analysis(sheets) ==
    LET attendee_sets == [n \in ReportSessions(sheets) |-> IdSet(sheets[n])]
        session_names == DOMAIN attendee_sets
        total_unique == UNION {attendee_sets[n] : n \in session_names}
        total_attendees == SumOver(session_names,
                                   [n \in session_names |-> Cardinality(attendee_sets[n])])
        multi_session_attendees == total_attendees - Cardinality(total_unique)
    IN  [report   |-> "attendance",
         sessions |-> session_names,
         total    |-> total_attendees,
         unique   |-> Cardinality(total_unique),
         multi    |-> multi_session_attendees,
         repeat   |-> IF Cardinality(total_unique) > 0
                      THEN (2000 * multi_session_attendees + Cardinality(total_unique))
                               \div (2 * Cardinality(total_unique))
                      ELSE 0,
         overlap  |-> [p \in {q \in session_names \X session_names : q[1] # q[2]} |->
                          Cardinality(attendee_sets[p[1]] \cap attendee_sets[p[2]])],
         attended |-> [a \in total_unique |->
                          Cardinality({n \in session_names : a \in attendee_sets[n]})]]

\* attendance_by_decade: the columns of the tables after the report, which
\* writes df['Decade'] when every session has 'CL YR'
attendance_by_decade(sheets, cols) ==
    IF HasColumnInAll(sheets, cols, col_CL_YR) THEN AddColumn(sheets, cols, col_Decade)
    ELSE cols

\* session_giving_correlation: giving_data is filled only when every session
\* table carries Total_All_Giving, the column clean_data adds
session_giving_correlation(sheets, normalized) ==
    LET has_giving == \A n \in ReportSessions(sheets) : n \in normalized
        rows == IF has_giving THEN ReportSessions(sheets) ELSE {}
    IN  [report   |-> "giving",
         sessions |-> rows,
         total    |-> SumOver(rows, [n \in rows |-> Len(sheets[n])]),
         unique   |-> 0]

\* wealth_range_distribution: the columns of the tables after the report,
\* which writes df['Standardized WE Range'] when every session has 'WE Range'
wealth_range_distribution(sheets, cols) ==
    IF HasColumnInAll(sheets, cols, col_WE_Range)
    THEN AddColumn(sheets, cols, col_Standardized_WE_Range)
    ELSE cols

\* high_capacity_prospects: wealth_data and the combined table, built from
\* copies of the session tables
high_capacity_prospects(sheets) ==
    LET rows == ReportSessions(sheets)
    IN  [report   |-> "targeting",
         sessions |-> rows,
         total    |-> SumOver(rows, [n \in rows |-> Len(sheets[n])]),
         unique   |-> 0]

----------------------------------------------------------------------------
(* One run of main, and a direct call of utils.load_data *)

\* The workbooks come in two families: sheets with varying rows, complete
\* columns and no fault, and one-row sheets with a column missing, a sheet
\* that cannot be parsed or an uploaded file that does not open.
Init ==
    /\ pc = "start"
    /\ df = NoTable
    /\ df_clean = NoTable
    /\ readable \in BOOLEAN
    /\ uploaded \in BOOLEAN
    /\ \/ /\ IsWorkbook(workbook)
          /\ columns = [n \in DOMAIN workbook |-> FullColumns]
          /\ unparsable = {}
          /\ upload_readable = uploaded
       \/ /\ IsAttendanceWorkbook(workbook)
          /\ columns = [n \in DOMAIN workbook |-> FullColumns]
          /\ unparsable = {}
          /\ upload_readable = uploaded
       \/ /\ IsWorkbook(workbook)
          /\ IsOneRowWorkbook(workbook)
          /\ IsColumnChoice(workbook, columns)
          /\ unparsable \in {b \in SUBSET (DOMAIN workbook) : Cardinality(b) <= 1}
          /\ upload_readable \in {b \in BOOLEAN : b => uploaded}
    /\ all_sheets = NoSheets
    /\ load_path = "none"
    /\ cleaned = {}
    /\ rendered = {}
    /\ page = <<>>
    /\ load_result = NotLoaded
    /\ raises = NoFaults

\* main, line 101: load_default_data shows st.error and returns None when
\* the read raised
LoadDefaultData ==
    /\ pc = "start"
    /\ LET result == load_default_data(workbook, readable, unparsable)
       IN  /\ all_sheets' = result
           /\ load_path' = IF result.ok THEN "default" ELSE "none"
           /\ load_result' = [loader  |-> "load_default_data",
                              outcome |-> IF result.ok THEN "mapping" ELSE "null"]
           /\ page' = IF result.ok THEN page
                      ELSE Append(page, Element("error", "load_default_data", <<>>))
    /\ pc' = "fallback"
    /\ UNCHANGED <<clean_vars, file_vars, cleaned, rendered, columns>>

\* main, lines 103-113: the upload widget is shown when the default load
\* returned None, and a supplied file is read with no handler around the
\* read, so that a failing read ends the run with a traceback
FallbackUpload ==
    /\ pc = "fallback"
    /\ ~all_sheets.ok
    /\ rendered' = rendered \cup
           {[report |-> "upload_prompt", sessions |-> {}, total |-> 0, unique |-> 0]}
    /\ LET prompted == Append(page, Element("prompt", "main", <<>>))
       IN  IF ~uploaded
           THEN /\ page' = prompted
                /\ pc' = "tabs"
                /\ UNCHANGED <<all_sheets, load_path, load_result>>
           ELSE IF read_excel_raises(upload_readable, unparsable)
           THEN /\ page' = Append(prompted, Element("exception", "main", <<>>))
                /\ load_result' = [loader |-> "upload", outcome |-> "raised"]
                /\ pc' = "crashed"
                /\ UNCHANGED <<all_sheets, load_path>>
           ELSE /\ page' = prompted
                /\ all_sheets' = load_uploaded(workbook)
                /\ load_path' = "upload"
                /\ load_result' = [loader |-> "upload", outcome |-> "mapping"]
                /\ pc' = "tabs"
    /\ UNCHANGED <<clean_vars, file_vars, cleaned, columns>>

\* main, line 103 with a loaded mapping
SkipFallback ==
    /\ pc = "fallback"
    /\ all_sheets.ok
    /\ pc' = "tabs"
    /\ UNCHANGED <<clean_vars, file_vars, main_vars>>

\* main, line 115 with no mapping or an empty one: nothing more is drawn
NoTabs ==
    /\ pc = "tabs"
    /\ ~Truthy(all_sheets)
    /\ pc' = "done"
    /\ UNCHANGED <<clean_vars, file_vars, main_vars>>

\* main, lines 124-125: a KeyError in display_overview ends the run before
\* any metric is drawn
DisplayOverview ==
    /\ pc = "tabs"
    /\ Truthy(all_sheets)
    /\ LET failed == display_overview_KeyError(all_sheets.sheets, columns)
       IN  IF failed # <<>>
           THEN /\ page' = Append(page, Element("exception", "display_overview", failed))
                /\ pc' = "crashed"
                /\ UNCHANGED rendered
           ELSE /\ rendered' = rendered \cup {display_overview(all_sheets.sheets)}
                /\ pc' = "tab2"
                /\ UNCHANGED page
    /\ UNCHANGED <<clean_vars, file_vars, all_sheets, load_path, cleaned, columns,
                   load_result>>

\* main, lines 127-128: run_attendance_analysis calls
\* attendance_overlap_analysis, then attendance_by_decade
RunAttendanceAnalysis ==
    /\ pc = "tab2"
    /\ IF KeyErrorOn(all_sheets.sheets, columns, col_ID)
       THEN /\ page' = Append(page, Element("exception", "attendance_overlap_analysis", col_ID))
            /\ pc' = "crashed"
            /\ UNCHANGED <<rendered, columns>>
       ELSE /\ rendered' = rendered \cup {attendance_overlap_analysis(all_sheets.sheets)}
            /\ columns' = attendance_by_decade(all_sheets.sheets, columns)
            /\ page' = IF HasColumnInAll(all_sheets.sheets, columns, col_CL_YR) THEN page
                       ELSE Append(page, Element("error", "attendance_by_decade", col_CL_YR))
            /\ pc' = "tab3"
    /\ UNCHANGED <<clean_vars, file_vars, all_sheets, load_path, cleaned, load_result>>

\* main, lines 130-131: run_giving_analysis calls session_giving_correlation,
\* then wealth_range_distribution
RunGivingAnalysis ==
    /\ pc = "tab3"
    /\ rendered' = rendered \cup {session_giving_correlation(all_sheets.sheets, cleaned)}
    /\ columns' = wealth_range_distribution(all_sheets.sheets, columns)
    /\ LET giving_page ==
               IF \A n \in ReportSessions(all_sheets.sheets) : n \in cleaned THEN page
               ELSE Append(page, Element("error", "session_giving_correlation",
                                         col_Total_All_Giving))
       IN  page' = IF HasColumnInAll(all_sheets.sheets, columns, col_WE_Range)
                   THEN giving_page
                   ELSE Append(giving_page,
                               Element("error", "wealth_range_distribution", col_WE_Range))
    /\ pc' = "tab4"
    /\ UNCHANGED <<clean_vars, file_vars, all_sheets, load_path, cleaned, load_result>>

\* main, lines 133-134: run_targeting_analysis calls high_capacity_prospects,
\* then ask_amount_optimization
RunTargetingAnalysis ==
    /\ pc = "tab4"
    /\ IF KeyErrorOn(all_sheets.sheets, columns, col_WE_Range)
       THEN /\ page' = Append(page, Element("exception", "high_capacity_prospects", col_WE_Range))
            /\ pc' = "crashed"
            /\ UNCHANGED rendered
       ELSE /\ rendered' = rendered \cup {high_capacity_prospects(all_sheets.sheets)}
            /\ IF KeyErrorOn(all_sheets.sheets, columns, col_Hi_Ask)
               THEN /\ page' = Append(page, Element("exception", "ask_amount_optimization",
                                                    col_Hi_Ask))
                    /\ pc' = "crashed"
               ELSE /\ pc' = "done"
                    /\ UNCHANGED page
    /\ UNCHANGED <<clean_vars, file_vars, all_sheets, load_path, cleaned, columns,
                   load_result>>

\* utils.load_data called on the workbook: a sheet that cannot be parsed is
\* skipped with st.warning, a file that does not open gives st.error and
\* the exception is raised again
LoadData ==
    /\ pc = "start"
    /\ IF readable
       THEN /\ all_sheets' = load_data(workbook, unparsable)
            /\ load_path' = "load_data"
            /\ load_result' = [loader |-> "load_data", outcome |-> "mapping"]
            /\ page' = page \o Warnings(unparsable)
            /\ pc' = "returned"
       ELSE /\ page' = Append(page, Element("error", "load_data", <<>>))
            /\ load_result' = [loader |-> "load_data", outcome |-> "raised"]
            /\ pc' = "raised"
            /\ UNCHANGED <<all_sheets, load_path>>
    /\ UNCHANGED <<clean_vars, file_vars, cleaned, rendered, columns>>

Next ==
    \/ LoadDefaultData
    \/ FallbackUpload
    \/ SkipFallback
    \/ NoTabs
    \/ DisplayOverview
    \/ RunAttendanceAnalysis
    \/ RunGivingAnalysis
    \/ RunTargetingAnalysis
    \/ LoadData

Spec == Init /\ [][Next]_vars

----------------------------------------------------------------------------
(* The standardization of categorical fields in the reports: wealth range,
   major, region of a state and decade of a class year *)

\* str.upper() on one character, and on a text
UpperChar(c) ==
    IF \E i \in 1..Len(LowerLetters) : LowerLetters[i] = c
    THEN UpperLetters[CHOOSE i \in 1..Len(LowerLetters) : LowerLetters[i] = c]
    ELSE c

Upper(s) == [i \in 1..Len(s) |-> UpperChar(s[i])]

\* str.strip(): "LF" stands for the newline character
Strip(s) ==
    LET kept == {i \in 1..Len(s) : s[i] \notin {" ", "LF"}}
    IN  IF kept = {} THEN <<>>
        ELSE SubSeq(s, CHOOSE i \in kept : \A j \in kept : i <= j,
                       CHOOSE i \in kept : \A j \in kept : i >= j)

\* str.replace(old, new) for single characters
ReplaceChar(s, old, new) == [i \in 1..Len(s) |-> IF s[i] = old THEN new ELSE s[i]]

\* standardize_wealth_range of wealth_range_distribution (giving_analysis.py)
standardize_wealth_range_giving(we_range) ==
    IF IsNA(we_range) THEN txt_Unknown
    ELSE LET w == Upper(Strip(AsStr(we_range)))
         IN  IF Contains(w, <<"U", "N", "D", "E", "R">>) \/ Contains(w, <<"<">>)
             THEN <<"U", "n", "d", "e", "r", " ", "$", "1", "0", "0", "K">>
             ELSE IF Contains(w, <<"1", "0", "0", "K", "-", "2", "5", "0", "K">>) \/ Contains(w, <<"1", "0", "0", "-", "2", "5", "0">>)
             THEN <<"$", "1", "0", "0", "K", "-", "$", "2", "5", "0", "K">>
             ELSE IF Contains(w, <<"2", "5", "0", "K", "-", "5", "0", "0", "K">>) \/ Contains(w, <<"2", "5", "0", "-", "5", "0", "0">>)
             THEN <<"$", "2", "5", "0", "K", "-", "$", "5", "0", "0", "K">>
             ELSE IF Contains(w, <<"5", "0", "0", "K", "-", "1", "M">>) \/ Contains(w, <<"5", "0", "0", "-", "1", "0", "0", "0">>)
             THEN <<"$", "5", "0", "0", "K", "-", "$", "1", "M">>
             ELSE IF Contains(w, <<"1", "M", "-", "5", "M">>) \/ Contains(w, <<"1", "0", "0", "0", "-", "5", "0", "0", "0">>)
             THEN <<"$", "1", "M", "-", "$", "5", "M">>
             ELSE IF Contains(w, <<"5", "M", "+">>) \/ Contains(w, <<">", "5", "M">>) \/ Contains(w, <<"O", "V", "E", "R", " ", "5", "M">>)
             THEN <<"O", "v", "e", "r", " ", "$", "5", "M">>
             ELSE <<"U", "n", "k", "n", "o", "w", "n">>

\* standardize_wealth_range of high_capacity_prospects (targeting_analysis.py):
\* newlines are removed and the minus sign "U+2212" becomes a hyphen
standardize_wealth_range_targeting(we_range) ==
    IF IsNA(we_range) THEN txt_Unknown
    ELSE LET w == ReplaceChar(RemoveChar(Upper(Strip(AsStr(we_range))), "LF"),
                              "U+2212", "-")
         IN  IF Contains(w, <<"5", ",", "0", "0", "0", ",", "0", "0", "0", "+">>) \/ Contains(w, <<"5", "M", "+">>)
             THEN <<"O", "v", "e", "r", " ", "$", "5", "M">>
             ELSE IF Contains(w, <<"1", ",", "0", "0", "0", ",", "0", "0", "0", "-", "4", ",", "9", "9", "9", ",", "9", "9", "9">>) \/ Contains(w, <<"1", "M", "-", "5", "M">>)
             THEN <<"$", "1", "M", "-", "$", "5", "M">>
             ELSE IF Contains(w, <<"5", "0", "0", ",", "0", "0", "0", "-", "9", "9", "9", ",", "9", "9", "9">>) \/ Contains(w, <<"5", "0", "0", "K", "-", "1", "M">>)
             THEN <<"$", "5", "0", "0", "K", "-", "$", "1", "M">>
             ELSE IF Contains(w, <<"2", "5", "0", ",", "0", "0", "0", "-", "4", "9", "9", ",", "9", "9", "9">>) \/ Contains(w, <<"2", "5", "0", "K", "-", "5", "0", "0", "K">>)
             THEN <<"$", "2", "5", "0", "K", "-", "$", "5", "0", "0", "K">>
             ELSE IF Contains(w, <<"1", "0", "0", ",", "0", "0", "0", "-", "2", "4", "9", ",", "9", "9", "9">>) \/ Contains(w, <<"1", "0", "0", "K", "-", "2", "5", "0", "K">>)
             THEN <<"$", "1", "0", "0", "K", "-", "$", "2", "5", "0", "K">>
             ELSE IF Contains(w, <<"5", "0", ",", "0", "0", "0", "-", "9", "9", ",", "9", "9", "9">>) \/ Contains(w, <<"5", "0", "K", "-", "1", "0", "0", "K">>)
             THEN <<"$", "5", "0", "K", "-", "$", "1", "0", "0", "K">>
             ELSE <<"U", "n", "d", "e", "r", " ", "$", "5", "0", "K">>

col_Major == <<"M", "a", "j", "o", "r">>
col_Standardized_Major == <<"S", "t", "a", "n", "d", "a", "r", "d", "i", "z", "e", "d", " ", "M", "a", "j", "o", "r">>
col_Region == <<"R", "e", "g", "i", "o", "n">>

\* the variations table of standardize_major, in the order of the dict
variations ==
    <<<<<<"C", "O", "M", "P", " ", "S", "C", "I">>, <<"C", "O", "M", "P", "U", "T", "E", "R", " ", "S", "C", "I", "E", "N", "C", "E">>>>,
      <<<<"B", "I", "O">>, <<"B", "I", "O", "L", "O", "G", "Y">>>>,
      <<<<"P", "S", "Y", "C", "H">>, <<"P", "S", "Y", "C", "H", "O", "L", "O", "G", "Y">>>>,
      <<<<"C", "O", "M", "M">>, <<"C", "O", "M", "M", "U", "N", "I", "C", "A", "T", "I", "O", "N", "S">>>>,
      <<<<"E", "C", "O", "N">>, <<"E", "C", "O", "N", "O", "M", "I", "C", "S">>>>,
      <<<<"E", "N", "G">>, <<"E", "N", "G", "L", "I", "S", "H">>>>,
      <<<<"B", "U", "S">>, <<"B", "U", "S", "I", "N", "E", "S", "S">>>>,
      <<<<"B", "U", "S", " ", "A", "D", "M", "I", "N">>, <<"B", "U", "S", "I", "N", "E", "S", "S", " ", "A", "D", "M", "I", "N", "I", "S", "T", "R", "A", "T", "I", "O", "N">>>>>>

\* standardize_major of major_field_correlation: the first key of the
\* table that occurs in the text decides (key in major)
standardize_major(major) ==
    IF IsNA(major) THEN txt_Unknown
    ELSE LET m    == Upper(Strip(AsStr(major)))
             hits == {i \in 1..Len(variations) : Contains(m, variations[i][1])}
         IN  IF hits = {} THEN m
             ELSE variations[CHOOSE i \in hits : \A j \in hits : i <= j][2]

txt_Other == <<"O", "t", "h", "e", "r">>

\* the regions table of geographic_distribution, in the order of the dict
regions ==
    <<<<<<"N", "o", "r", "t", "h", "e", "a", "s", "t">>,
        {<<"M", "E">>, <<"N", "H">>, <<"V", "T">>, <<"M", "A">>, <<"R", "I">>, <<"C", "T">>, <<"N", "Y">>, <<"N", "J">>, <<"P", "A">>}>>,
      <<<<"M", "i", "d", "w", "e", "s", "t">>,
        {<<"O", "H">>, <<"I", "N">>, <<"I", "L">>, <<"M", "I">>, <<"W", "I">>, <<"M", "N">>, <<"I", "A">>, <<"M", "O">>, <<"N", "D">>, <<"S", "D">>, <<"N", "E">>, <<"K", "S">>}>>,
      <<<<"S", "o", "u", "t", "h">>,
        {<<"D", "E">>, <<"M", "D">>, <<"D", "C">>, <<"V", "A">>, <<"W", "V">>, <<"N", "C">>, <<"S", "C">>, <<"G", "A">>, <<"F", "L">>, <<"K", "Y">>, <<"T", "N">>, <<"A", "L">>, <<"M", "S">>, <<"A", "R">>, <<"L", "A">>, <<"O", "K">>, <<"T", "X">>}>>,
      <<<<"W", "e", "s", "t">>,
        {<<"M", "T">>, <<"I", "D">>, <<"W", "Y">>, <<"C", "O">>, <<"N", "M">>, <<"A", "Z">>, <<"U", "T">>, <<"N", "V">>, <<"W", "A">>, <<"O", "R">>, <<"C", "A">>, <<"A", "K">>, <<"H", "I">>}>>>>

\* get_region of geographic_distribution: state in states is membership of
\* a list, so only a text equal to a listed code is found
get_region(state) ==
    IF IsNA(state) \/ state = StrCell(txt_Unknown) THEN txt_Unknown
    ELSE LET hits == {i \in 1..Len(regions) : state.k = "str" /\ state.s \in regions[i][2]}
         IN  IF hits = {} THEN txt_Other
             ELSE regions[CHOOSE i \in hits : \A j \in hits : i <= j][1]

txt_5000000_plus == <<"5", ",", "0", "0", "0", ",", "0", "0", "0", "+">>
txt_100000_249999 == <<"1", "0", "0", ",", "0", "0", "0", "-", "2", "4", "9", ",", "9", "9", "9">>

\* raw WE Range texts as the spreadsheet spells them
WealthTexts ==
    {<<"5", ",", "0", "0", "0", ",", "0", "0", "0", "+">>,
     <<"1", ",", "0", "0", "0", ",", "0", "0", "0", "-", "4", ",", "9", "9", "9", ",", "9", "9", "9">>,
     <<"5", "0", "0", ",", "0", "0", "0", "-", "9", "9", "9", ",", "9", "9", "9">>,
     <<"2", "5", "0", ",", "0", "0", "0", "-", "4", "9", "9", ",", "9", "9", "9">>,
     <<"1", "0", "0", ",", "0", "0", "0", "-", "2", "4", "9", ",", "9", "9", "9">>,
     <<"5", "0", ",", "0", "0", "0", "-", "9", "9", ",", "9", "9", "9">>,
     <<"5", "M", "+">>,
     <<"1", "M", "-", "5", "M">>,
     <<"5", "0", "0", "K", "-", "1", "M">>,
     <<"2", "5", "0", "K", "-", "5", "0", "0", "K">>,
     <<"1", "0", "0", "K", "-", "2", "5", "0", "K">>,
     <<"5", "0", "K", "-", "1", "0", "0", "K">>,
     <<"U", "n", "d", "e", "r", " ", "1", "0", "0", "K">>,
     <<"<", "5", "0", "K">>,
     <<">", "5", "M">>,
     <<"O", "v", "e", "r", " ", "5", "M">>,
     <<"1", "0", "0", "-", "2", "5", "0">>,
     <<"N", "/", "A">>,
     <<"1", "0", "0", ",", "0", "0", "0", "U+2212", "2", "4", "9", ",", "9", "9", "9">>}

\* the same texts lower-cased, or with a blank in front and a newline behind
WealthCells ==
    {StrCell(s) : s \in WealthTexts}
    \cup {StrCell(Lower(s)) : s \in WealthTexts}
    \cup {StrCell(<<" ">> \o s \o <<"LF">>) : s \in WealthTexts}
    \cup {NaN, IntCell(5000000)}

\* Major texts: the keys of the table, full names and other majors
MajorTexts ==
    {<<"C", "O", "M", "P", " ", "S", "C", "I">>,
     <<"B", "I", "O">>,
     <<"P", "S", "Y", "C", "H">>,
     <<"C", "O", "M", "M">>,
     <<"E", "C", "O", "N">>,
     <<"E", "N", "G">>,
     <<"B", "U", "S">>,
     <<"B", "U", "S", " ", "A", "D", "M", "I", "N">>,
     <<"E", "n", "g", "i", "n", "e", "e", "r", "i", "n", "g">>,
     <<"B", "i", "o", "l", "o", "g", "y">>,
     <<"H", "i", "s", "t", "o", "r", "y">>,
     <<"C", "o", "m", "p", "u", "t", "e", "r", " ", "S", "c", "i", "e", "n", "c", "e">>,
     <<"B", "u", "s", "i", "n", "e", "s", "s">>,
     <<"B", "i", "o", "e", "n", "g", "i", "n", "e", "e", "r", "i", "n", "g">>,
     <<"M", "a", "t", "h">>}

MajorCells ==
    {StrCell(s) : s \in MajorTexts}
    \cup {StrCell(Lower(s)) : s \in MajorTexts}
    \cup {StrCell(<<" ">> \o s \o <<" ">>) : s \in MajorTexts}
    \cup {NaN, StrCell(<<>>)}

\* State values: listed codes, unlisted values, the blank text and no value
StateCells ==
    {StrCell(s) : s \in {<<"M", "E">>,
                         <<"P", "A">>,
                         <<"O", "H">>,
                         <<"K", "S">>,
                         <<"D", "E">>,
                         <<"D", "C">>,
                         <<"T", "X">>,
                         <<"M", "T">>,
                         <<"H", "I">>,
                         <<"P", "R">>,
                         <<"O", "N">>,
                         <<"m", "a">>,
                         <<"U", "n", "k", "n", "o", "w", "n">>,
                         <<>>,
                         <<" ">>,
                         <<"M", "a", "s", "s", "a", "c", "h", "u", "s", "e", "t", "t", "s">>}}
    \cup {NaN, IntCell(5)}

\* class years given as texts of digits, next to a number and no value
DecadeYearCells ==
    {StrCell(s) : s \in {<<"8", "5">>, <<"0", "5">>, <<"5", "0">>, <<"4", "9">>, <<"0", "0">>, <<"9", "9">>, <<"2", "0">>, <<"1", "9", "8", "5">>, <<"a", "b", "c">>, <<"5">>}}
    \cup {IntCell(1985), IntCell(85), NaN}

\* the fields the standardization runs take: one row, one field
FieldCells ==
    [c \in {col_WE_Range, col_Major, col_State, col_CL_YR} |->
        IF c = col_WE_Range THEN WealthCells
        ELSE IF c = col_Major THEN MajorCells
        ELSE IF c = col_State THEN StateCells
        ELSE DecadeYearCells]

InitWealth ==
    /\ pc = "wealth_ready"
    /\ \E f \in DOMAIN FieldCells : \E c \in FieldCells[f] :
          df = Table(<<f>>, f :> <<c>>)
    /\ df_clean = NoTable
    /\ workbook = <<>>
    /\ readable = FALSE
    /\ uploaded = FALSE
    /\ all_sheets = NoSheets
    /\ load_path = "none"
    /\ cleaned = {}
    /\ rendered = {}
    /\ columns = <<>>
    /\ unparsable = {}
    /\ upload_readable = FALSE
    /\ page = <<>>
    /\ load_result = NotLoaded
    /\ raises = NoFaults

\* wealth_range_distribution, line 558:
\* df['Standardized WE Range'] = df['WE Range'].apply(standardize_wealth_range)
StandardizeInGiving ==
    /\ pc = "wealth_ready"
    /\ HasCol(df, col_WE_Range)
    /\ df_clean' = SetCol(df, col_Standardized_WE_Range, "object",
                          [i \in 1..Len(df.data[col_WE_Range]) |->
                              StrCell(standardize_wealth_range_giving(df.data[col_WE_Range][i]))])
    /\ pc' = "wealth_giving"
    /\ UNCHANGED <<df, file_vars, main_vars>>

\* high_capacity_prospects, line 74, on a copy of the table; the column is
\* spelled 'Standardized_WE_Range' there
StandardizeInTargeting ==
    /\ pc = "wealth_ready"
    /\ HasCol(df, col_WE_Range)
    /\ df_clean' = SetCol(df, col_Standardized_WE_Range, "object",
                          [i \in 1..Len(df.data[col_WE_Range]) |->
                              StrCell(standardize_wealth_range_targeting(df.data[col_WE_Range][i]))])
    /\ pc' = "wealth_targeting"
    /\ UNCHANGED <<df, file_vars, main_vars>>

\* major_field_correlation, line 2092:
\* df['Standardized Major'] = df['Major'].apply(standardize_major)
StandardizeMajor ==
    /\ pc = "wealth_ready"
    /\ HasCol(df, col_Major)
    /\ df_clean' = SetCol(df, col_Standardized_Major, "object",
                          [i \in 1..Len(df.data[col_Major]) |->
                              StrCell(standardize_major(df.data[col_Major][i]))])
    /\ pc' = "major_done"
    /\ UNCHANGED <<df, file_vars, main_vars>>

\* geographic_distribution: the states are counted after fillna('Unknown')
\* (line 1762) and plot_df['Region'] = plot_df['State'].apply(get_region)
RegionOfState ==
    /\ pc = "wealth_ready"
    /\ HasCol(df, col_State)
    /\ df_clean' = SetCol(df, col_Region, "object",
                          [i \in 1..Len(df.data[col_State]) |->
                              StrCell(get_region(FillStateCell(df.data[col_State][i])))])
    /\ pc' = "region_done"
    /\ UNCHANGED <<df, file_vars, main_vars>>

\* attendance_by_decade, line 1001: df['Decade'] = df['CL YR'].apply(get_decade)
DecadeOfClassYear ==
    /\ pc = "wealth_ready"
    /\ HasCol(df, col_CL_YR)
    /\ df_clean' = SetCol(df, col_Decade, "object",
                          [i \in 1..Len(df.data[col_CL_YR]) |->
                              StrCell(get_decade(df.data[col_CL_YR][i]))])
    /\ pc' = "decade_done"
    /\ UNCHANGED <<df, file_vars, main_vars>>

NextWealth ==
    \/ StandardizeInGiving
    \/ StandardizeInTargeting
    \/ StandardizeMajor
    \/ RegionOfState
    \/ DecadeOfClassYear

SpecWealth == InitWealth /\ [][NextWealth]_vars

----------------------------------------------------------------------------
(* Properties of clean_data, checked under SpecClean *)

Cleaned == pc = "clean_done"

\* the value a cell adds to a sum in which a missing value counts as zero
ValueOrZero(c) == IF c.k \in {"int", "float"} THEN [m |-> c.m, e |-> c.e] ELSE DecZero

RECURSIVE DecSum(_, _)
DecSum(S, f) ==
    IF S = {} THEN DecZero
    ELSE LET x == CHOOSE y \in S : TRUE
         IN  DecAdd(f[x], DecSum(S \ {x}, f))

\* the columns the giving total is to range over: the name contains "Gift",
\* does not contain "Pledge", the column is no date column of the input and
\* is not datetime-typed after normalization
GivingColumns ==
    {c \in Range(df.cols) :
        /\ Contains(c, kw_Gift)
        /\ ~Contains(c, kw_Pledge)
        /\ c \notin Range(date_cols(df))
        /\ df_clean.dtype[c] # "datetime64[ns]"}

TotalOf(t, r) == [m |-> t.data[col_Total_All_Giving][r].m,
                  e |-> t.data[col_Total_All_Giving][r].e]

Totals(t) == IF HasCol(t, col_Total_All_Giving) THEN t.data[col_Total_All_Giving] ELSE <<>>

\* the input table with the cells of column c replaced
WithColumn(t, c, cells) == Table(t.cols, (c :> cells) @@ t.data)

\* C2: two inputs that differ only in the cells of a pledge column or of a
\* column whose name contains "date" in any letter case get the same
\* Total_All_Giving in every row.
C2_PledgeAndDateCellsDoNotChangeTotal ==
    Cleaned =>
        \A c \in Range(df.cols) :
            (Contains(c, kw_Pledge) \/ Contains(Lower(c), kw_date)) =>
                \A cells \in [1..NRows -> CellsOf(c)] :
                    Totals(clean_data(WithColumn(df, c, cells))) = Totals(df_clean)

IsWholeId(c) == (IsNum(c) /\ c.e = 0 /\ c.m >= 0)
                \/ (c.k = "str" /\ c.s # <<>> /\ \A i \in 1..Len(c.s) : IsDigit(c.s[i]))

IdDigits(c) == IF c.k = "str" THEN c.s ELSE NatStr(c.m)

\* C4: an ID given as an integer, as a float without fractional part or as
\* a digit string is normalized to the digit string itself, so that equal
\* IDs are equal after normalization.
C4_IdNormalizedToDigits ==
    (Cleaned /\ HasCol(df, col_ID)) =>
        \A r \in 1..NRows :
            IsWholeId(df.data[col_ID][r]) =>
                df_clean.data[col_ID][r] = StrCell(IdDigits(df.data[col_ID][r]))

\* the year a CL YR cell stands for: to_numeric of the cell, '' being missing
YearOf(c) == ToNumericCell(IF c.k = "str" /\ c.s = <<>> THEN NaN ELSE c)

\* the bucket rule of the specification for a year cell
BucketRule(c) ==
    LET y == YearOf(c)
    IN  IF ~IsNum(y) THEN txt_Unknown
        ELSE IF y.m < 1950 * Pow10(y.e) THEN txt_Pre1950s
        ELSE IF y.m >= 2020 * Pow10(y.e) THEN txt_2020s
        ELSE IntStr((y.m \div Pow10(y.e + 1)) * 10) \o <<"s">>

\* C8: the Decade column of clean_data follows the bucket rule: "Pre-1950s"
\* below 1950, "2020s" from 2020 on, the decade in between, "Unknown" for a
\* missing or unparsable year.
C8_DecadeFollowsBucketRule ==
    (Cleaned /\ HasCol(df, col_CL_YR)) =>
        \A r \in 1..NRows :
            df_clean.data[col_Decade][r] = StrCell(BucketRule(df.data[col_CL_YR][r]))

\* C9: the Decade column of clean_data, get_decade_label and get_decade give
\* the same label for every numeric or missing year.
C9_DecadeComputationsAgree ==
    (Cleaned /\ HasCol(df, col_CL_YR)) =>
        \A r \in 1..NRows :
            LET year == df.data[col_CL_YR][r]
            IN  (IsNum(year) \/ IsNA(year)) =>
                    /\ df_clean.data[col_Decade][r].s = get_decade_label(year)
                    /\ get_decade_label(year) = get_decade(year)

\* the text left when every "$" and "," is taken out
WithoutCurrencyMarks(s) == LET Keep(ch) == ch # "$" /\ ch # "," IN SelectSeq(s, Keep)

\* an optionally signed decimal numeral: digits with at most one point
IsNumeral(s) ==
    LET b == IF s # <<>> /\ (Head(s) = "-" \/ Head(s) = "+") THEN Tail(s) ELSE s
    IN  /\ Cardinality({i \in 1..Len(b) : b[i] = "."}) <= 1
        /\ Cardinality({i \in 1..Len(b) : IsDigit(b[i])}) >= 1
        /\ \A i \in 1..Len(b) : IsDigit(b[i]) \/ b[i] = "."

\* the value of a numeral, digit by digit from its place values
RECURSIVE PlaceSum(_, _)
PlaceSum(d, i) ==
    IF i > Len(d) THEN 0 ELSE DigitVal(d[i]) * Pow10(Len(d) - i) + PlaceSum(d, i + 1)

NumeralValue(s) ==
    LET neg == Head(s) = "-"
        b   == IF Head(s) = "-" \/ Head(s) = "+" THEN Tail(s) ELSE s
        d   == LET IsD(ch) == ch # "." IN SelectSeq(b, IsD)
        fr  == IF \E i \in 1..Len(b) : b[i] = "."
               THEN Len(b) - (CHOOSE i \in 1..Len(b) : b[i] = ".") ELSE 0
        v   == PlaceSum(d, 1)
    IN  Norm(IF neg THEN -v ELSE v, fr)

\* the amount columns of the input: the name contains "Gift" or "Ask" and
\* the column is no date column
AmountColumns ==
    {c \in Range(df.cols) :
        (Contains(c, kw_Gift) \/ Contains(c, kw_Ask)) /\ c \notin Range(date_cols(df))}

\* C10: a text cell of an amount column becomes the number left after the
\* currency symbol and the thousands separators are removed, and becomes
\* missing, never zero, when what is left is no number or the cell is empty.
C10_CurrencyTextParsed ==
    Cleaned =>
        \A c \in AmountColumns : \A r \in 1..NRows :
            LET cell == df.data[c][r]
                out  == df_clean.data[c][r]
                rest == WithoutCurrencyMarks(cell.s)
            IN  cell.k = "str" =>
                    IF IsNumeral(rest)
                    THEN IsNum(out) /\ NumVal(out) = NumeralValue(rest)
                    ELSE out.k = "nan"

\* "$12,345.67" has become 12345.67, and "N/A" and '' are met as well
C10_Witness ==
    /\ Cleaned
    /\ HasCol(df, col_Gift)
    /\ df.data[col_Gift][1] = StrCell(txt_Currency)
    /\ NumVal(df_clean.data[col_Gift][1]) = [m |-> 1234567, e |-> 2]
    /\ \E r \in 1..NRows : df.data[col_Gift][r] \in {StrCell(txt_NA), StrCell(<<>>)}
                           /\ df_clean.data[col_Gift][r].k = "nan"

\* the columns clean_data converted as dates, and those it handled as amounts
TreatedAsDate == Range(date_cols(df))

TreatedAsAmount == Range(amount_cols(df, date_cols(df)))

\* C11: a column is treated as a date column exactly when its lower-cased
\* name contains "date", and as an amount column exactly when its
\* lower-cased name contains "gift" or "ask" and it is no date column.
C11_ClassificationIgnoresCase ==
    Cleaned =>
        \A c \in Range(df.cols) :
            /\ c \in TreatedAsDate <=> Contains(Lower(c), kw_date)
            /\ c \in TreatedAsAmount <=>
                  /\ Contains(Lower(c), Lower(kw_Gift)) \/ Contains(Lower(c), Lower(kw_Ask))
                  /\ ~Contains(Lower(c), kw_date)

\* C12: a cell that held the empty string in the input is missing after
\* clean_data, in every column, the ID column included.
C12_EmptyTextBecomesMissing ==
    Cleaned =>
        \A c \in Range(df.cols) : \A r \in 1..NRows :
            df.data[c][r] = StrCell(<<>>) => IsNA(df_clean.data[c][r])

CleanedTwice == pc = "clean_twice"

\* the columns idempotence is stated for: ID, the year columns, the amount
\* columns and the two derived columns
IdempotentColumns ==
    {c \in Range(df.cols) :
        \/ c \in {col_ID, col_CL_YR, col_SP_CL_YR, col_Decade, col_Total_All_Giving}
        \/ Contains(c, kw_Gift) \/ Contains(c, kw_Ask)}

\* C13: clean_data applied to its own result changes nothing in the ID
\* column, the year columns, the amount columns, Decade and
\* Total_All_Giving, and adds no column.  (In a state after the second call,
\* df is the result of the first and df_clean the result of the second.)
C13_CleanDataIdempotent ==
    CleanedTwice =>
        /\ df_clean.cols = df.cols
        /\ \A c \in IdempotentColumns :
              /\ df_clean.data[c] = df.data[c]
              /\ df_clean.dtype[c] = df.dtype[c]

\* a table whose first gift was the text "$12,345.67" has been normalized
\* twice, and its total is 12345.67 after both calls
C13_Witness ==
    /\ CleanedTwice
    /\ HasCol(df, col_Total_All_Giving)
    /\ TotalOf(df, 1) = [m |-> 1234567, e |-> 2]
    /\ TotalOf(df_clean, 1) = [m |-> 1234567, e |-> 2]

\* whether the cell of column c cannot be read as what the column holds:
\* a year text that is no number, a date text that is no date, an amount
\* text that is no number once "$" and "," are taken out, a timestamp in an
\* amount column
IsBadCell(c, cell) ==
    \/ /\ cell.k = "str"
       /\ cell.s # <<>>
       /\ \/ c \in Range(year_cols) /\ ParseNumber(cell.s) = NaN
          \/ c \in TreatedAsDate /\ ToDatetimeCell(cell) = NaT
          \/ c \in TreatedAsAmount /\ ~IsNumeral(WithoutCurrencyMarks(cell.s))
    \/ cell.k = "dt" /\ c \in TreatedAsAmount

\* the input with the cell of column c, row r taken out
WithMissingCell(t, c, r) ==
    WithColumn(t, c, [i \in 1..NRows |-> IF i = r THEN NaN ELSE t.data[c][i]])

\* the cells of the result that do not come from a bad cell of the input
GoodCells(t) ==
    {<<c, r>> \in Range(t.cols) \X (1..NRows) :
        ~HasCol(df, c) \/ ~IsBadCell(c, df.data[c][r])}

\* C17: clean_data returns a table whatever a single cell holds: an
\* unparsable cell of a year, date or amount column becomes missing (a
\* timestamp in an amount column may stay), adds nothing to
\* Total_All_Giving, and every cell of the result that does not come from a
\* bad cell is what it would be had the bad cell been empty.
C17_BadCellDegradesToMissing ==
    Cleaned =>
        /\ \A c \in Range(df_clean.cols) : Len(df_clean.data[c]) = NRows
        /\ \A c \in Range(df.cols) : \A r \in 1..NRows :
              IsBadCell(c, df.data[c][r]) =>
                  LET out   == df_clean.data[c][r]
                      other == clean_data(WithMissingCell(df, c, r))
                  IN  /\ IsNA(out) \/ (out.k = "dt" /\ out = df.data[c][r])
                      /\ ValueOrZero(out) = DecZero
                      /\ other.cols = df_clean.cols
                      /\ \A q \in GoodCells(df_clean) :
                            other.data[q[1]][q[2]] = df_clean.data[q[1]][q[2]]

\* a year column with the text "abc" above 1983: the bad cell is missing,
\* its decade is "Unknown" and 1983 has its decade
C17_Witness ==
    /\ Cleaned
    /\ HasCol(df, col_CL_YR)
    /\ df.data[col_CL_YR][1] = StrCell(<<"a", "b", "c">>)
    /\ df.data[col_CL_YR][2] = IntCell(1983)
    /\ df_clean.data[col_CL_YR][1] = NaN
    /\ df_clean.data[col_Decade][1] = StrCell(txt_Unknown)
    /\ df_clean.data[col_Decade][2] = StrCell(<<"1", "9", "8", "0", "s">>)

----------------------------------------------------------------------------
(* Properties of the loaders and of main, checked under Spec *)

\* C5: whichever loader produced it, the mapping has no key that is
\* "sheet7" when lower-cased.
C5_NoPlaceholderKeyLoaded ==
    all_sheets.ok => \A n \in DOMAIN all_sheets.sheets : Lower(n) # txt_sheet7

\* the reports of the four tabs
TabReports == {r \in rendered : r.report # "upload_prompt"}

\* the sessions of the mapping: every sheet but the placeholder spellings
LoadedSessions == (DOMAIN all_sheets.sheets) \ {name_Sheet7, name_SHEET7, txt_sheet7}

\* C6: whatever keys the mapping holds, a report aggregates over the
\* sessions only: no placeholder sheet is among the sheets it used, and its
\* total is the total of the other sheets.
C6_ReportsSkipPlaceholder ==
    \A r \in TabReports :
        /\ r.sessions \cap PlaceholderNames = {}
        /\ r.report \in {"overview", "targeting"} =>
              /\ r.sessions = LoadedSessions
              /\ r.total = SumOver(LoadedSessions,
                                   [n \in LoadedSessions |-> Len(all_sheets.sheets[n])])
        /\ r.report = "attendance" =>
              /\ r.sessions = LoadedSessions
              /\ r.total = SumOver(LoadedSessions,
                                   [n \in LoadedSessions |->
                                       Cardinality({all_sheets.sheets[n][i] :
                                                      i \in 1..Len(all_sheets.sheets[n])})])

\* the mapping holds a placeholder sheet with a row in it, and all four
\* tabs have been drawn from the session next to it
C6_Witness ==
    /\ pc = "done"
    /\ name_SHEET7 \in DOMAIN all_sheets.sheets
    /\ Len(all_sheets.sheets[name_SHEET7]) = 1
    /\ name_A \in DOMAIN all_sheets.sheets
    /\ Len(all_sheets.sheets[name_A]) = 2
    /\ \E r \in TabReports : r.report = "overview" /\ r.total = 2

\* C7: every session table handed to a report has been passed through
\* clean_data before.
C7_ReportsSeeNormalizedTables ==
    TabReports # {} => DOMAIN all_sheets.sheets \subseteq cleaned

\* whether the file read by the last loader call opens
LastFileOpens ==
    IF load_result.loader = "upload" THEN upload_readable ELSE readable

LoadCalled == load_result.loader # "none"

\* the elements of the page
PageElements == {page[i] : i \in 1..Len(page)}

\* C14: when one sheet of a workbook that opens cannot be parsed, the load
\* returns a mapping, a warning names that sheet, that sheet is not in the
\* mapping and every other sheet of the workbook is.
C14_UnparsableSheetIsSkipped ==
    (LoadCalled /\ LastFileOpens /\ unparsable # {}) =>
        /\ load_result.outcome = "mapping"
        /\ all_sheets.ok
        /\ \A n \in unparsable :
              /\ n \notin DOMAIN all_sheets.sheets
              /\ \E e \in PageElements : e.kind = "warning" /\ e.about = n
        /\ \A n \in (DOMAIN workbook) \ unparsable : n \in DOMAIN all_sheets.sheets

\* C15: when the workbook cannot be opened, the loader ends by raising: it
\* returns neither a mapping nor a null result.
C15_UnopenableWorkbookRaises ==
    (LoadCalled /\ ~LastFileOpens) => load_result.outcome = "raised"

\* main has ended, by returning or by an exception
MainEnded == pc \in {"done", "crashed"}

\* the page element a fatal load failure leaves in main: the error message of
\* load_default_data, or the traceback of the read of the uploaded file
IsLoadFailure(e) ==
    \/ e.kind = "error" /\ e.source = "load_default_data"
    \/ e.kind = "exception" /\ e.source = "main"

\* C16: in a run of main, every fatal load failure is followed by the prompt
\* for another file, and no tab is rendered when the last load failed.
C16_LoadFailureLeadsToPrompt ==
    MainEnded =>
        /\ \A i \in 1..Len(page) :
              IsLoadFailure(page[i]) =>
                  \E j \in (i + 1)..Len(page) : page[j].kind = "prompt"
        /\ load_result.outcome \in {"null", "raised"} => TabReports = {}

\* C18: a column missing from a session table never ends a report with an
\* exception: the report shows a message about the column and the
\* following reports run.
C18_MissingColumnIsReported ==
    /\ \A e \in PageElements : ~(e.kind = "exception" /\ e.about \in FullColumns)
    /\ \A c \in FullColumns :
          (pc = "done" /\ Truthy(all_sheets) /\ KeyErrorOn(all_sheets.sheets, columns, c)) =>
              \E e \in PageElements : e.kind = "error" /\ e.about = c

\* the positions of main at which the next step runs the reports of a tab
TabPositions == {"tabs", "tab2", "tab3", "tab4"}

\* a step from a tab position leaves the mapping and its tables alone
ReportStepKeepsTables ==
    (pc \in TabPositions) => (all_sheets' = all_sheets /\ columns' = columns)

\* C19: no report changes a table of the session mapping: a step that runs
\* the reports of a tab leaves the sheets and their columns as they were.
C19_ReportsLeaveTablesUnchanged ==
    [][ReportStepKeepsTables]_vars

----------------------------------------------------------------------------
(* Properties of the wealth-range standardization, checked under SpecWealth *)

Standardized == pc \in {"wealth_giving", "wealth_targeting"}

RawRange == df.data[col_WE_Range][1]

StandardRange == df_clean.data[col_Standardized_WE_Range][1].s

\* C20: each of the two standardization routines maps "5,000,000+" to
\* "Over $5M" and "100,000-249,999" to "$100K-$250K".
C20_BothRoutinesMapRawRanges ==
    Standardized =>
        /\ RawRange = StrCell(txt_5000000_plus) =>
              StandardRange = <<"O", "v", "e", "r", " ", "$", "5", "M">>
        /\ RawRange = StrCell(txt_100000_249999) =>
              StandardRange = <<"$", "1", "0", "0", "K", "-", "$", "2", "5", "0", "K">>

\* C21: whatever the input, each standardization routine returns a label of
\* the fixed vocabulary {Under $50K, $50K-$100K, $100K-$250K, $250K-$500K,
\* $500K-$1M, $1M-$5M, Over $5M} or the fallback label "Unknown".
C21_LabelInFixedVocabulary ==
    Standardized =>
        StandardRange \in
            {<<"U", "n", "d", "e", "r", " ", "$", "5", "0", "K">>,
             <<"$", "5", "0", "K", "-", "$", "1", "0", "0", "K">>,
             <<"$", "1", "0", "0", "K", "-", "$", "2", "5", "0", "K">>,
             <<"$", "2", "5", "0", "K", "-", "$", "5", "0", "0", "K">>,
             <<"$", "5", "0", "0", "K", "-", "$", "1", "M">>,
             <<"$", "1", "M", "-", "$", "5", "M">>,
             <<"O", "v", "e", "r", " ", "$", "5", "M">>,
             txt_Unknown}

MajorStandardized == pc = "major_done"

RawMajor == df.data[col_Major][1]

TrimmedMajor == Upper(Strip(AsStr(RawMajor)))

StandardMajor == df_clean.data[col_Standardized_Major][1].s

\* C22: a major that equals a key of the abbreviation table after trimming
\* and uppercasing is mapped to the expansion of that key ("COMP SCI" gives
\* "COMPUTER SCIENCE", "BUS ADMIN" gives "BUSINESS ADMINISTRATION").
C22_AbbreviationGetsOwnExpansion ==
    MajorStandardized =>
        \A i \in 1..Len(variations) :
            (~IsNA(RawMajor) /\ TrimmedMajor = variations[i][1]) =>
                StandardMajor = variations[i][2]

\* C23: a major that is present and is not a key of the table comes back
\* trimmed and uppercased and otherwise unchanged, also when a key occurs
\* inside it; a missing major gives "Unknown".
C23_OtherMajorsPassThrough ==
    MajorStandardized =>
        /\ IsNA(RawMajor) => StandardMajor = txt_Unknown
        /\ (~IsNA(RawMajor) /\ \A i \in 1..Len(variations) : TrimmedMajor # variations[i][1]) =>
              StandardMajor = TrimmedMajor

RegionAssigned == pc = "region_done"

RawState == df.data[col_State][1]

RegionLabel == df_clean.data[col_Region][1].s

\* C24: a state listed in the table of a region gets that region, any other
\* non-blank state value gets "Other", and a missing state, the empty text
\* and the text "Unknown" get "Unknown".
C24_RegionOfState ==
    RegionAssigned =>
        /\ \A i \in 1..Len(regions) :
              (RawState.k = "str" /\ RawState.s \in regions[i][2]) =>
                  RegionLabel = regions[i][1]
        /\ (IsNA(RawState) \/ RawState \in {StrCell(<<>>), StrCell(txt_Unknown)}) =>
              RegionLabel = txt_Unknown
        /\ (~IsNA(RawState) /\ RawState \notin {StrCell(<<>>), StrCell(txt_Unknown)}
              /\ \A i \in 1..Len(regions) : ~(RawState.k = "str" /\ RawState.s \in regions[i][2])) =>
              RegionLabel = txt_Other

DecadeAssigned == pc = "decade_done"

RawYear == df.data[col_CL_YR][1]

DecadeOfYear == df_clean.data[col_Decade][1].s

IsTwoDigitText(c) == c.k = "str" /\ Len(c.s) = 2 /\ \A i \in 1..2 : IsDigit(c.s[i])

\* C27: get_decade reads a class year given as a text of two digits as a
\* year of the century its comments state: "50".."99" give the decade
\* 1900 + floor(yy/10)*10 and "00".."49" give 2000 + floor(yy/10)*10.
C27_TwoDigitYearCentury ==
    (DecadeAssigned /\ IsTwoDigitText(RawYear)) =>
        DecadeOfYear =
            IntStr((IF DigitsVal(RawYear.s) >= 50 THEN 1900 ELSE 2000)
                   + (DigitsVal(RawYear.s) \div 10) * 10) \o <<"s">>

----------------------------------------------------------------------------
(* Properties of the attendance figures, checked under Spec *)

AttendanceReports == {r \in rendered : r.report = "attendance"}

OverviewReports == {r \in rendered : r.report = "overview"}

\* C26: the "Multi-Session Attendees" figure is the number of attendees who
\* occur in more than one session, that is the number of rows of the overlap
\* table whose "Sessions Attended" exceeds 1, also when somebody attended
\* three sessions or more.
C26_MultiSessionCountsPeople ==
    \A r \in AttendanceReports :
        r.multi = Cardinality({a \in DOMAIN r.attended : r.attended[a] > 1})

\* the IDs a session table actually holds, as texts
PresentIds(sheet) == {AsStr(sheet[i]) : i \in {j \in 1..Len(sheet) : ~IsNA(sheet[j])}}

PresentIdsOf(names) == UNION {PresentIds(all_sheets.sheets[n]) : n \in names}

\* C28: rows without an ID are never one shared person: they make no two
\* sessions overlap, they are no multi-session attendee, and they add no
\* identity to the number of unique attendees.
C28_MissingIdIsNobody ==
    /\ \A r \in AttendanceReports :
          /\ \A p \in DOMAIN r.overlap :
                r.overlap[p] = Cardinality(PresentIds(all_sheets.sheets[p[1]])
                                           \cap PresentIds(all_sheets.sheets[p[2]]))
          /\ \A a \in DOMAIN r.attended :
                r.attended[a] > 1 => a \in PresentIdsOf(r.sessions)
          /\ r.unique = Cardinality(PresentIdsOf(r.sessions))
    /\ \A r \in OverviewReports :
          r.unique = Cardinality(PresentIdsOf(r.sessions))

\* C30: the Overview page and the Cross-Session Attendance tab show the same
\* figures for the same mapping: "Unique Individuals" equals "Unique
\* Attendees" and the two "Repeat Attendance Rate" values are equal, also
\* when a session table holds an ID in more than one row.
C30_OverviewAndCrossSessionAgree ==
    \A o \in OverviewReports : \A a \in AttendanceReports :
        /\ o.unique = a.unique
        /\ o.repeat = a.repeat

----------------------------------------------------------------------------
(* Properties of the end of a run of main, checked under Spec *)

\* the tabs were drawn from a mapping that holds a session
TabsRendered == \E r \in TabReports : r.sessions # {}

PromptShown == \E e \in PageElements : e.kind = "prompt"

\* C29: a run of main that comes to its end has rendered the analysis tabs
\* from a non-empty session mapping or has shown the file-upload prompt,
\* also when the default workbook loads and holds no session once the
\* placeholder sheet is removed.
C29_RunEndsWithTabsOrPrompt ==
    pc = "done" => (TabsRendered \/ PromptShown)

----------------------------------------------------------------------------
(* Properties of the except branch of clean_data, checked under SpecFault *)

\* the value a giving column adds in the except branch: its coerced value,
\* zero for a cell that does not coerce and for a column whose coercion raises
CoercedOrZero(c, r) ==
    IF c \in raises.to_numeric THEN DecZero
    ELSE ValueOrZero(ToNumericCell(df_clean.data[c][r]))

\* C25: when the row-wise sum of the giving columns raises, clean_data still
\* returns the table with Total_All_Giving written, and the total of a row is
\* the sum over the giving columns of the column's own coerced value, a cell
\* that does not coerce and a column whose coercion fails counting as zero.
C25_FallbackTotalIsColumnwiseSum ==
    (Cleaned /\ raises.sum /\ GivingColumns # {}) =>
        /\ HasCol(df_clean, col_Total_All_Giving)
        /\ \A r \in 1..NRows :
              TotalOf(df_clean, r) =
                  DecSum(GivingColumns, [c \in GivingColumns |-> CoercedOrZero(c, r)])

\* the sum raised and so did the coercion of 'Gift': a row holding a gift of
\* 100 and prior gifts of 250 has the total 250
C25_Witness ==
    /\ Cleaned
    /\ raises = [sum |-> TRUE, to_numeric |-> {col_Gift}]
    /\ df_clean.data[col_Gift][1].m = 100
    /\ df_clean.data[col_Prior_Gifts][1].m = 250
    /\ TotalOf(df_clean, 1) = [m |-> 250, e |-> 0]

====
